---- MODULE Spec2Model ----
(***************************************************************************)
(* A model of the gofile_api client library (src/src/lib.rs and            *)
(* src/src/payload.rs): the four handles (Api, AuthorizedApi, ServerApi,   *)
(* AuthorizedServerApi), the HTTP requests their operations issue, the     *)
(* handling of the {status, data} response envelope, the serde encoders of *)
(* the request payloads and the serde decoder of the Content record.       *)
(*                                                                         *)
(* Conventions.  A Rust String is a TLA+ string, except where the code     *)
(* looks inside it (the "," join, the MIME grammar): there it is a         *)
(* sequence of one-character strings, and Str turns such a sequence into   *)
(* a TLA+ string.  A JSON value is a record with one field that names its  *)
(* type: [str |-> s], [num |-> n], [bool |-> b], [null |-> TRUE],          *)
(* [arr |-> <<...>>], [obj |-> f] with f a function from keys to values.   *)
(* Option<T> is <<>> (None) or <<x>> (Some(x)).  Result<T, E> is a record  *)
(* with the field ok.                                                      *)
(***************************************************************************)
EXTENDS Integers, Sequences, FiniteSets, TLC

----------------------------------------------------------------------------
(* Bounds of the model. *)

\* Longest list of content ids, of tags and of servers.
MaxList == 2
\* Most path segments of a content url.
MaxSegs == 3
\* Largest upload body, in bytes.
MaxSize == 2
\* Calls of public operations in one run.
MaxCalls == 2
\* Most fields removed from a complete Content record.
MaxMissing == 2
\* The longest mimetype string of the records decoded for their mimetype.
MaxMime == 3

----------------------------------------------------------------------------
(* Strings. *)

RECURSIVE Str(_)
Str(cs) == IF cs = <<>> THEN "" ELSE Head(cs) \o Str(Tail(cs))

HexDigits == <<"0", "1", "2", "3", "4", "5", "6", "7",
               "8", "9", "a", "b", "c", "d", "e", "f">>

\* The i-th hex digit, from the left, of the 32 hex digits of the 128-bit
\* number u (the model's uuids are below 16^7).
RECURSIVE Pow16(_)
Pow16(k) == IF k = 0 THEN 1 ELSE 16 * Pow16(k - 1)

UuidDigit(u, i) ==
    IF i < 32 - 7 THEN "0"
    ELSE HexDigits[((u \div Pow16(32 - i)) % 16) + 1]

\* Uuid's Display: lower-case hex, hyphenated 8-4-4-4-12.
UuidToString(u) ==
    LET Group(a, b) == [k \in 1..(b - a + 1) |-> UuidDigit(u, a + k - 1)]
    IN  Group(1, 8) \o <<"-">> \o Group(9, 12) \o <<"-">> \o Group(13, 16)
        \o <<"-">> \o Group(17, 20) \o <<"-">> \o Group(21, 32)

\* The uuids of the model, as 128-bit numbers.
Uuids == {1, 2, 17}

UuidStr(u) == Str(UuidToString(u))

\* Uuid's FromStr, on the strings the model draws.
IsUuidStr(s) == \E u \in Uuids : UuidStr(u) = s
ParseUuid(s) == CHOOSE u \in Uuids : UuidStr(u) = s

----------------------------------------------------------------------------
(* JSON values. *)

JStr(s) == [str |-> s]
JNum(n) == [num |-> n]
JBool(b) == [bool |-> b]
JNull == [null |-> TRUE]
JArr(a) == [arr |-> a]
JObj(f) == [obj |-> f]

IsStr(j) == DOMAIN j = {"str"}
IsNum(j) == DOMAIN j = {"num"}
IsBool(j) == DOMAIN j = {"bool"}
IsNull(j) == DOMAIN j = {"null"}
IsArr(j) == DOMAIN j = {"arr"}
IsObj(j) == DOMAIN j = {"obj"}

Has(o, k) == k \in DOMAIN o

\* The object o without the keys of K.
Without(o, K) == [k \in (DOMAIN o) \ K |-> o[k]]

Ok(v) == [ok |-> TRUE, value |-> v]
DecodeErr == [ok |-> FALSE]

None == <<>>
Some(x) == <<x>>

----------------------------------------------------------------------------
(* payload.rs: the decoders of the field types. *)

\* Mime::from_str, on the grammar type "/" subtype (parameters left out): both
\* are non-empty runs of token characters.  The string is a sequence of
\* characters over MimeChars.
MimeTokenChars == {"t", "p"}
MimeChars == MimeTokenChars \cup {"/", " "}

IsToken(cs) == cs # <<>> /\ \A i \in 1..Len(cs) : cs[i] \in MimeTokenChars

MimeFromStr(cs) ==
    IF \E i \in 1..Len(cs) :
          /\ cs[i] = "/"
          /\ IsToken(SubSeq(cs, 1, i - 1))
          /\ IsToken(SubSeq(cs, i + 1, Len(cs)))
    THEN Ok([mime |-> Str(cs)])
    ELSE DecodeErr

\* A faulty mime_from_str, one that takes a default for a string that is no
\* MIME type: C13 tells it from the real one.
mime_from_str_or_default(j) ==
    IF ~IsStr(j) THEN DecodeErr
    ELSE IF MimeFromStr(j.str).ok THEN MimeFromStr(j.str)
    ELSE Ok([mime |-> "application/octet-stream"])

\* mime_from_str: the field is a string, which must parse as a MIME type.
mime_from_str(j) ==
    IF ~IsStr(j) THEN DecodeErr ELSE MimeFromStr(j.str)

\* The other field types: each decodes a JSON value of its shape.
ValidUrls == {"http://example.com/path/file.txt"}
ValidMd5s == {"000000000000000000000000000001ff"}

DecString(j) == IF IsStr(j) THEN Ok(j.str) ELSE DecodeErr
DecBool(j) == IF IsBool(j) THEN Ok(j.bool) ELSE DecodeErr
\* u32 and u64: a number that is not negative.
DecUnsigned(j) == IF IsNum(j) /\ j.num >= 0 THEN Ok(j.num) ELSE DecodeErr
DecUuid(j) == IF IsStr(j) /\ IsUuidStr(j.str) THEN Ok(ParseUuid(j.str)) ELSE DecodeErr
DecUrl(j) == IF IsStr(j) /\ j.str \in ValidUrls THEN Ok([url |-> j.str]) ELSE DecodeErr
\* hex::serde into [u8; 16]: 32 hex digits.
DecMd5(j) == IF IsStr(j) /\ j.str \in ValidMd5s THEN Ok([md5 |-> j.str]) ELSE DecodeErr
\* chrono's ts_seconds: an integer count of seconds since the epoch.
DecTsSeconds(j) == IF IsNum(j) THEN Ok([secs |-> j.num, nanos |-> 0]) ELSE DecodeErr
\* Server.
DecodeServer(j) ==
    IF IsObj(j) /\ Has(j.obj, "name") /\ IsStr(j.obj["name"])
       /\ Has(j.obj, "zone") /\ IsStr(j.obj["zone"])
    THEN Ok([name |-> j.obj["name"].str, zone |-> j.obj["zone"].str])
    ELSE DecodeErr

\* A sequence or map of results as the result of the sequence or map: an
\* error if one of them is.
Collect(rs) ==
    IF \A k \in DOMAIN rs : rs[k].ok
    THEN Ok([k \in DOMAIN rs |-> rs[k].value])
    ELSE DecodeErr

\* r as the result of an Option.
SomeOf(r) == IF r.ok THEN Ok(Some(r.value)) ELSE DecodeErr

DecUuidVec(j) ==
    IF IsArr(j) THEN Collect([i \in 1..Len(j.arr) |-> DecUuid(j.arr[i])])
    ELSE DecodeErr

DecServerVec(j) ==
    IF IsArr(j) THEN Collect([i \in 1..Len(j.arr) |-> DecodeServer(j.arr[i])])
    ELSE DecodeErr

----------------------------------------------------------------------------
(* payload.rs: Content and ContentKind. *)

RECURSIVE DecodeContent(_)
RECURSIVE DecField(_, _)

\* A required field of a struct: missing or ill-typed is an error.
Required(o, k, ty) == IF Has(o, k) THEN DecField(ty, o[k]) ELSE DecodeErr
\* An Option field: missing or null is None.
\* A faulty Option field, one that has to be there: C3 tells it from the real
\* one.
OptionalStrict(o, k, ty) ==
    IF ~Has(o, k) THEN DecodeErr ELSE SomeOf(DecField(ty, o[k]))

Optional(o, k, ty) ==
    IF ~Has(o, k) \/ IsNull(o[k]) THEN Ok(None) ELSE SomeOf(DecField(ty, o[k]))
\* A #[serde(default)] field: missing is the type's default.
Defaulted(o, k, ty, d) == IF Has(o, k) THEN DecField(ty, o[k]) ELSE Ok(d)

\* HashMap<Uuid, Content>: an object whose keys are uuids and whose values
\* are Content records.
DecContents(j) ==
    IF IsObj(j) /\ \A k \in DOMAIN j.obj : IsUuidStr(k)
    THEN Collect([u \in {ParseUuid(k) : k \in DOMAIN j.obj} |->
                    DecodeContent(j.obj[UuidStr(u)])])
    ELSE DecodeErr

\* A field's decoder, by the field's type.
DecField(ty, j) ==
    CASE ty = "String" -> DecString(j)
      [] ty = "bool" -> DecBool(j)
      [] ty = "u32" -> DecUnsigned(j)
      [] ty = "u64" -> DecUnsigned(j)
      [] ty = "Uuid" -> DecUuid(j)
      [] ty = "Url" -> DecUrl(j)
      [] ty = "md5" -> DecMd5(j)
      [] ty = "ts_seconds" -> DecTsSeconds(j)
      [] ty = "Vec<Uuid>" -> DecUuidVec(j)
      [] ty = "Vec<Server>" -> DecServerVec(j)
      [] ty = "Mime" -> mime_from_str(j)
      [] ty = "HashMap<Uuid, Content>" -> DecContents(j)

\* ContentKind::Folder.
DecodeFolder(o) ==
    Collect([variant |-> Ok("Folder"),
             code |-> Required(o, "code", "String"),
             public |-> Defaulted(o, "public", "bool", FALSE),
             children_ids |-> Required(o, "childrenIds", "Vec<Uuid>"),
             total_download_count |-> Optional(o, "totalDownloadCount", "u32"),
             total_size |-> Optional(o, "totalSize", "u64"),
             contents |-> Optional(o, "contents", "HashMap<Uuid, Content>")])

\* ContentKind::File.
DecodeFile(o) ==
    Collect([variant |-> Ok("File"),
             size |-> Required(o, "size", "u64"),
             download_count |-> Required(o, "downloadCount", "u32"),
             md5 |-> Required(o, "md5", "md5"),
             mimetype |-> Required(o, "mimetype", "Mime"),
             server_choosen |-> Required(o, "serverChoosen", "String"),
             link |-> Required(o, "link", "Url")])

\* ContentKind: internally tagged by "type", the variant names in camelCase.
\* A faulty decoder of the kind, one that takes every record that is not a
\* folder for a file: C2 tells it from the real one.
DecodeContentKindUntagged(o) ==
    IF Has(o, "type") /\ IsStr(o["type"]) /\ o["type"].str = "folder"
    THEN DecodeFolder(Without(o, {"type"}))
    ELSE DecodeFile(Without(o, {"type"}))

DecodeContentKind(o) ==
    IF ~Has(o, "type") \/ ~IsStr(o["type"]) THEN DecodeErr
    ELSE IF o["type"].str = "folder" THEN DecodeFolder(Without(o, {"type"}))
    ELSE IF o["type"].str = "file" THEN DecodeFile(Without(o, {"type"}))
    ELSE DecodeErr

\* The fields of Content itself; the others are flattened into kind.
CommonKeys == {"id", "name", "parentFolder", "createTime"}

DecodeContent(j) ==
    IF ~IsObj(j) THEN DecodeErr
    ELSE Collect([id |-> Required(j.obj, "id", "Uuid"),
                  name |-> Required(j.obj, "name", "String"),
                  parent_folder |-> Required(j.obj, "parentFolder", "Uuid"),
                  create_time |-> Required(j.obj, "createTime", "ts_seconds"),
                  kind |-> DecodeContentKind(Without(j.obj, CommonKeys))])

----------------------------------------------------------------------------
(* payload.rs: the other response payloads and the envelope. *)

\* Servers.
DecodeServers(j) ==
    IF ~IsObj(j) THEN DecodeErr
    ELSE Collect([servers |-> Required(j.obj, "servers", "Vec<Server>")])

\* UploadedFile.
DecodeUploadedFile(j) ==
    IF ~IsObj(j) THEN DecodeErr
    ELSE Collect([guest_token |-> Optional(j.obj, "guestToken", "String"),
                  download_page |-> Required(j.obj, "downloadPage", "Url"),
                  code |-> Required(j.obj, "code", "String"),
                  parent_folder |-> Required(j.obj, "parentFolder", "Uuid"),
                  file_id |-> Required(j.obj, "fileId", "Uuid"),
                  file_name |-> Required(j.obj, "fileName", "String"),
                  md5 |-> Required(j.obj, "md5", "md5")])

\* AccountDetails.
DecodeAccountDetails(j) ==
    IF ~IsObj(j) THEN DecodeErr
    ELSE Collect([id |-> Required(j.obj, "id", "Uuid"),
                  token |-> Required(j.obj, "token", "String"),
                  email |-> Required(j.obj, "email", "String"),
                  tier |-> Required(j.obj, "tier", "String"),
                  root_folder |-> Required(j.obj, "rootFolder", "Uuid"),
                  files_count |-> Required(j.obj, "filesCount", "u32"),
                  total_size |-> Required(j.obj, "totalSize", "u64")])

\* NoInfo, a struct without fields: any object, its fields ignored.
DecodeNoInfo(j) == IF IsObj(j) THEN Ok([noinfo |-> TRUE]) ELSE DecodeErr

\* The response types T of parse_res::<T>; "Value" is serde_json::Value.
Decode(T, j) ==
    CASE T = "Servers" -> DecodeServers(j)
      [] T = "Content" -> DecodeContent(j)
      [] T = "Uuid" -> DecUuid(j)
      [] T = "Url" -> DecUrl(j)
      [] T = "AccountDetails" -> DecodeAccountDetails(j)
      [] T = "UploadedFile" -> DecodeUploadedFile(j)
      [] T = "NoInfo" -> DecodeNoInfo(j)
      [] T = "Value" -> Ok(j)

\* ApiResult<T>: both fields are required.
DecodeApiResult(T, j) ==
    IF ~IsObj(j) THEN DecodeErr
    ELSE Collect([status |-> Required(j.obj, "status", "String"),
                  data |-> IF Has(j.obj, "data") THEN Decode(T, j.obj["data"])
                           ELSE DecodeErr])

----------------------------------------------------------------------------
(* payload.rs: the encoders of the request payloads. *)

\* [String]::join.
RECURSIVE Join(_, _)
Join(strs, sep) ==
    IF strs = <<>> THEN <<>>
    ELSE IF Len(strs) = 1 THEN strs[1]
    ELSE strs[1] \o sep \o Join(Tail(strs), sep)

\* T::to_string of the element types the lists have.
ToStringOf(ty, x) ==
    CASE ty = "Uuid" -> UuidToString(x)
      [] ty = "String" -> x

\* A faulty comma_separated_string_from_vec, one that joins the elements from
\* the last to the first: C8 tells it from the real one.
comma_separated_string_reversed(vec, ty) ==
    JStr(Join([i \in 1..Len(vec) |-> ToStringOf(ty, vec[Len(vec) + 1 - i])],
              <<",">>))

\* comma_separated_string_from_vec: each element's to_string, joined by ",",
\* serialized as one string.
comma_separated_string_from_vec(vec, ty) ==
    JStr(Join([i \in 1..Len(vec) |-> ToStringOf(ty, vec[i])], <<",">>))

\* bool's Display.
BoolToString(b) == IF b THEN <<"t", "r", "u", "e">> ELSE <<"f", "a", "l", "s", "e">>

\* A faulty to_string, one that serializes the bool as it is: C7 tells it
\* from the real one.
to_json_bool(v) == JBool(v)

\* to_string: the value's to_string, serialized as a string.
to_string(v) == JStr(BoolToString(v))

\* A ContentOpt is a record with one field, named as its variant.
Variant(opt) == CHOOSE v \in DOMAIN opt : TRUE

\* rename_all = "camelCase" on the variants of ContentOpt.
CamelCase(variant) ==
    CASE variant = "Public" -> "public"
      [] variant = "Password" -> "password"
      [] variant = "Description" -> "description"
      [] variant = "Expire" -> "expire"
      [] variant = "Tags" -> "tags"
      [] variant = "DirectLink" -> "directLink"

\* The content of a ContentOpt, each variant by its serializer; ts_seconds
\* writes DateTime::timestamp(), the whole seconds, as an integer.
SerializeOptValue(opt) ==
    CASE Variant(opt) = "Public" -> to_string(opt.Public)
      [] Variant(opt) = "Password" -> JStr(opt.Password)
      [] Variant(opt) = "Description" -> JStr(opt.Description)
      [] Variant(opt) = "Expire" -> JNum(opt.Expire.secs)
      [] Variant(opt) = "Tags" -> comma_separated_string_from_vec(opt.Tags, "String")
      [] Variant(opt) = "DirectLink" -> to_string(opt.DirectLink)

\* ContentOpt: adjacently tagged, tag = "option", content = "value".
SerializeContentOpt(opt) ==
    ("option" :> JStr(CamelCase(Variant(opt)))) @@ ("value" :> SerializeOptValue(opt))

\* UpdateContentApiPayload: token, and opt flattened into the same object.
SerializeUpdateContent(p) ==
    JObj(("token" :> JStr(p.token)) @@ SerializeContentOpt(p.opt))

\* CreateFolderApiPayload.
SerializeCreateFolder(p) ==
    JObj([token |-> JStr(p.token),
          parentFolderId |-> JStr(UuidToString(p.parent_folder_id)),
          folderName |-> JStr(p.folder_name)])

\* CopyContentApiPayload.
SerializeCopyContent(p) ==
    JObj([token |-> JStr(p.token),
          contentsId |-> comma_separated_string_from_vec(p.contents_id, "Uuid"),
          folderIdDest |-> JStr(UuidToString(p.folder_id_dest))])

\* DeleteContentApiPayload.
SerializeDeleteContent(p) ==
    JObj([token |-> JStr(p.token),
          contentsId |-> comma_separated_string_from_vec(p.contents_id, "Uuid")])

----------------------------------------------------------------------------
(* lib.rs: the state. *)

VARIABLES
    api,                    \* the caller's Api
    authorized_api,         \* the caller's AuthorizedApi, if it has one
    server_api,             \* the caller's ServerApi
    authorized_server_api,  \* the caller's AuthorizedServerApi, if it has one
    pc,                     \* "idle"; "sent": a request is in flight;
                            \* "returned": the call has returned
    call,                   \* the operation called, with its arguments
    request,                \* the HTTP request that call issued, if any
    response,               \* the HTTP response to it, if one has arrived
    result,                 \* what the call returned
    ncalls,                 \* calls of public async operations so far
    nrequests,              \* HTTP requests the call has issued
    sent,                   \* bytes of the upload body the HTTP client has read
    progress,               \* the byte counts reported to the caller
    input,                  \* the argument of the encoder or decoder under check
    output,                 \* its result
    tasks                   \* the spawned tasks: each its clones of the handles
                            \* and its call

handles == <<api, authorized_api, server_api, authorized_server_api>>
pure == <<input, output, tasks>>
vars == <<api, authorized_api, server_api, authorized_server_api, pc, call,
          request, response, result, ncalls, nrequests, sent, progress, input,
          output, tasks>>

Absent == [absent |-> TRUE]

\* Api::default.
DefaultBaseUrl == "https://api.gofile.io"
\* A base url the caller sets itself, as the tests do.
MockBaseUrl == "http://127.0.0.1:1234"
Tokens == {"tokA", "tokB"}

Api_default == [base_url |-> DefaultBaseUrl]

\* Error, by variant.
HttpRequestError == [ok |-> FALSE, err |-> "HttpRequestError"]
HttpStatusCodeError(url, status) ==
    [ok |-> FALSE, err |-> "HttpStatusCodeError", url |-> url, code |-> status]
ApiStatusError(url, status) ==
    [ok |-> FALSE, err |-> "ApiStatusError", url |-> url, status |-> status]
EmptyServerList == [ok |-> FALSE, err |-> "EmptyServerList"]
InvalidFilePath(path) == [ok |-> FALSE, err |-> "InvalidFilePath", path |-> path]
CouldntOpenFile(path) == [ok |-> FALSE, err |-> "CouldntOpenFile", path |-> path]
InvalidContentUrl(url) == [ok |-> FALSE, err |-> "InvalidContentUrl", url |-> url]

----------------------------------------------------------------------------
(* lib.rs: the requests. *)

\* Api::url: the url of path under base_url.  A path is the sequence of its
\* segments, a query the sequence of its (key, value) pairs.
Api_url(base_url, path) == [base |-> base_url, path |-> path, query |-> <<>>]

NoBody == [empty |-> TRUE]

\* Api::get_with_params: the GET it sends.
get_with_params(base_url, path, params) ==
    [method |-> "GET",
     url |-> [Api_url(base_url, path) EXCEPT !.query = params],
     body |-> NoBody]

\* Api::get.
get(base_url, path) == get_with_params(base_url, path, <<>>)

\* Api::request_with_payload: the request it sends, its body the payload
\* as JSON.
request_with_payload(method, base_url, path, payload) ==
    [method |-> method,
     url |-> Api_url(base_url, path),
     body |-> [json |-> payload]]

put_with_payload(base_url, path, payload) ==
    request_with_payload("PUT", base_url, path, payload)

delete_with_payload(base_url, path, payload) ==
    request_with_payload("DELETE", base_url, path, payload)

\* A faulty upload, one that leaves the token out of the form: C5 tells it
\* from the real one.
upload_file_impl_anonymous(base_url, filename, body, folder_id, token) ==
    [method |-> "POST",
     url |-> Api_url(base_url, <<"contents", "uploadfile">>),
     body |-> [multipart |->
        <<[name |-> "file", file_name |-> filename, stream |-> body]>>
        \o (IF folder_id # None
            THEN <<[name |-> "folderId", text |-> UuidStr(folder_id[1])]>>
            ELSE <<>>)]]

\* A faulty upload, one that has the whole body in the part (Part::bytes):
\* C14 tells it from the real one.
upload_file_impl_buffered(base_url, filename, body, folder_id, token) ==
    [method |-> "POST",
     url |-> Api_url(base_url, <<"contents", "uploadfile">>),
     body |-> [multipart |->
        <<[name |-> "file", file_name |-> filename, bytes |-> body]>>
        \o (IF folder_id # None
            THEN <<[name |-> "folderId", text |-> UuidStr(folder_id[1])]>>
            ELSE <<>>)
        \o (IF token # None
            THEN <<[name |-> "token", text |-> token[1]]>>
            ELSE <<>>)]]

\* ServerApi::upload_file_impl: the POST it sends, a multipart form whose
\* first part streams body.
upload_file_impl(base_url, filename, body, folder_id, token) ==
    [method |-> "POST",
     url |-> Api_url(base_url, <<"contents", "uploadfile">>),
     body |-> [multipart |->
        <<[name |-> "file", file_name |-> filename, stream |-> body]>>
        \o (IF folder_id # None
            THEN <<[name |-> "folderId", text |-> UuidStr(folder_id[1])]>>
            ELSE <<>>)
        \o (IF token # None
            THEN <<[name |-> "token", text |-> token[1]]>>
            ELSE <<>>)]]

\* Api::parse_res::<T>, of a response to a request for url.  A response is
\* its status code and its body; a body is JSON text or not.
StatusCodeOK == 200

\* Response::json::<ApiResult<T>>: the body read and decoded.
ResponseJson(T, body) ==
    IF body.json THEN DecodeApiResult(T, body.value) ELSE DecodeErr

\* parse_res with a status code that is not 200, res_obj what the body
\* decoded to as ApiResult<Value>.
ParseNotOK(url, status, res_obj) ==
    IF res_obj.ok THEN ApiStatusError(url, res_obj.value.status)
    ELSE HttpStatusCodeError(url, status)

\* parse_res with the status code 200, res_obj what the body decoded to as
\* ApiResult<T>: `?` turns a body that does not decode into
\* Error::HttpRequestError.
ParseOK(url, res_obj) ==
    IF ~res_obj.ok THEN HttpRequestError
    ELSE IF res_obj.value.status # "ok"
    THEN ApiStatusError(url, res_obj.value.status)
    ELSE Ok(res_obj.value.data)

parse_res(T, url, res) ==
    IF res.status # StatusCodeOK
    THEN ParseNotOK(url, res.status, ResponseJson("Value", res.body))
    ELSE ParseOK(url, ResponseJson(T, res.body))

\* Api::code_from_content_url.  A Url is its host, its path segments (None
\* for a url that cannot be a base) and its query.
\* A faulty code_from_content_url, one that takes the last segment of the
\* path: C9 tells it from the real one.
code_from_last_segment(url) ==
    IF url.segs = None THEN InvalidContentUrl(url)
    ELSE LET segs == url.segs[1]
         IN  IF segs = <<>> \/ segs[1] # "d" THEN InvalidContentUrl(url)
             ELSE IF Len(segs) < 2 THEN InvalidContentUrl(url)
             ELSE Ok(segs[Len(segs)])

code_from_content_url(url) ==
    IF url.segs = None THEN InvalidContentUrl(url)
    ELSE LET segs == url.segs[1]
         IN  IF segs = <<>> \/ segs[1] # "d" THEN InvalidContentUrl(url)
             ELSE IF Len(segs) < 2 THEN InvalidContentUrl(url)
             ELSE Ok(segs[2])

\* ServerApi::open_file.  A path is its file name (None when it has none),
\* whether that name is UTF-8, and the file there (None when it cannot be
\* opened).
open_file(path) ==
    IF path.file_name = None THEN InvalidFilePath(path)
    ELSE IF ~path.utf8 THEN InvalidFilePath(path)
    ELSE IF path.file = None THEN CouldntOpenFile(path)
    ELSE Ok([filename |-> path.file_name[1], file |-> path.file[1]])

----------------------------------------------------------------------------
(* lib.rs: the operations of the handles, each by the request it sends. *)

\* Api::authorize.
Api_authorize(self, token) == [base_url |-> self.base_url, token |-> token]

\* AuthorizedServerApi::authorize.
AuthorizedServerApi_authorize(self, token) ==
    [base_url |-> self.base_url, token |-> token]

\* Api::get_server: the request, and what it makes of the parsed response.
Api_get_server(self) == get(self.base_url, <<"servers">>)

\* A faulty get_server, one that takes the last server of the list: C6
\* tells it from the real one.
Api_get_server_result_last(parsed) ==
    IF ~parsed.ok THEN parsed
    ELSE IF parsed.value.servers = <<>> THEN EmptyServerList
    ELSE Ok([base_url |->
                "https://"
                \o parsed.value.servers[Len(parsed.value.servers)].name
                \o ".gofile.io"])

Api_get_server_result(parsed) ==
    IF ~parsed.ok THEN parsed
    ELSE IF parsed.value.servers = <<>> THEN EmptyServerList
    ELSE Ok([base_url |->
                "https://" \o Head(parsed.value.servers).name \o ".gofile.io"])

\* AuthorizedApi::get_server: Api::default().get_server(), and the token
\* added to the ServerApi it returns.
AuthorizedApi_get_server(self) == Api_get_server(Api_default)

AuthorizedApi_get_server_result(self, parsed) ==
    LET r == Api_get_server_result(parsed)
    IN  IF ~r.ok THEN r
        ELSE Ok([base_url |-> r.value.base_url, token |-> self.token])

\* AuthorizedApi::get_content_impl; format!("contents/{}", id_or_code) is
\* the path of the two segments.
get_content_impl(self, id_or_code) ==
    get_with_params(self.base_url, <<"contents", id_or_code>>,
                    <<(<<"token", self.token>>)>>)

get_content_by_code(self, code) == get_content_impl(self, code)

get_content_by_id(self, content_id) == get_content_impl(self, UuidStr(content_id))

get_account_id(self) ==
    get_with_params(self.base_url, <<"accounts", "getid">>,
                    <<(<<"token", self.token>>)>>)

get_account_details(self, account_id) ==
    get_with_params(self.base_url, <<"accounts", UuidStr(account_id)>>,
                    <<(<<"token", self.token>>)>>)

create_folder(self, parent_folder_id, folder_name) ==
    put_with_payload(self.base_url, <<"contents", "createFolder">>,
        SerializeCreateFolder([token |-> self.token,
                               parent_folder_id |-> parent_folder_id,
                               folder_name |-> folder_name]))

set_option(self, content_id, opt) ==
    put_with_payload(self.base_url, <<"contents", UuidStr(content_id), "update">>,
        SerializeUpdateContent([token |-> self.token, opt |-> opt]))

copy_content(self, content_ids, dest_folder_id) ==
    put_with_payload(self.base_url, <<"contents", "copy">>,
        SerializeCopyContent([token |-> self.token,
                              contents_id |-> content_ids,
                              folder_id_dest |-> dest_folder_id]))

delete_content(self, content_ids) ==
    delete_with_payload(self.base_url, <<"contents">>,
        SerializeDeleteContent([token |-> self.token,
                                contents_id |-> content_ids]))

\* ServerApi::upload_file_with_filename and _to_folder.
ServerApi_upload_file_with_filename(self, filename, body) ==
    upload_file_impl(self.base_url, filename, body, None, None)

ServerApi_upload_file_with_filename_to_folder(self, folder_id, filename, body) ==
    upload_file_impl(self.base_url, filename, body, Some(folder_id), None)

\* AuthorizedServerApi::upload_file_with_filename and _to_folder.
AuthorizedServerApi_upload_file_with_filename(self, filename, body) ==
    upload_file_impl(self.base_url, filename, body, None, Some(self.token))

AuthorizedServerApi_upload_file_with_filename_to_folder(self, folder_id, filename, body) ==
    upload_file_impl(self.base_url, filename, body, Some(folder_id), Some(self.token))

----------------------------------------------------------------------------
(* The arguments the caller passes and the responses the server gives. *)

SeqsUpTo(S, n) == UNION {[1..k -> S] : k \in 0..n}

\* Content codes: single path segments.
Codes == {"foo", "JoKslp"}

\* Content urls: a host and a query with each path of 1..MaxSegs segments,
\* and a url without path segments.
ContentUrls ==
    {[host |-> d[1], segs |-> Some(p), query |-> d[2]] :
        d \in {<<"gofile.io", "">>, <<"example.com", "a=1">>},
        p \in SeqsUpTo({"d", "foo"}, MaxSegs) \ {<<>>}}
    \cup {[host |-> "", segs |-> None, query |-> ""]}

\* One ContentOpt of each variant.
ClientOpts ==
    {[Public |-> TRUE],
     [Password |-> <<"p", "w">>],
     [Description |-> <<"d">>],
     [Expire |-> [secs |-> 1000000000, nanos |-> 5]],
     [Tags |-> << <<"b", "a", "r">>, <<"b", "a", "z">> >>],
     [DirectLink |-> FALSE]}

\* The ids the caller passes, and the lists of them.
Ids == {1, 17}
IdLists == SeqsUpTo(Ids, MaxList)

FolderNames == {"bar"}
FileNames == {"test.txt"}

\* Upload bodies, by their size in bytes.
UploadBodies == {[size |-> n] : n \in 0..MaxSize}

\* Paths: of a file of each size, without a file name, with a file name
\* that is not UTF-8, and of no file.
Paths ==
    {[file_name |-> Some("test.txt"), utf8 |-> TRUE, file |-> Some(b)] :
        b \in UploadBodies}
    \cup {[file_name |-> None, utf8 |-> TRUE, file |-> None],
          [file_name |-> Some("test.txt"), utf8 |-> FALSE, file |-> Some([size |-> 1])],
          [file_name |-> Some("test.txt"), utf8 |-> TRUE, file |-> None]}

ServerNames == {"store1", "store3"}

ServersJson(names) ==
    JObj([servers |->
            JArr([i \in 1..Len(names) |->
                    JObj([name |-> JStr(names[i]), zone |-> JStr("eu")])])])

\* A Content record with every field of both variants.
FullContent(id, ty, mimetype, contents) ==
    [id |-> JStr(UuidStr(id)),
     name |-> JStr("foo"),
     parentFolder |-> JStr(UuidStr(1)),
     createTime |-> JNum(1000000001),
     type |-> JStr(ty),
     code |-> JStr("bar"),
     public |-> JBool(TRUE),
     childrenIds |-> JArr(<<JStr(UuidStr(2)), JStr(UuidStr(17))>>),
     totalDownloadCount |-> JNum(10),
     totalSize |-> JNum(20),
     contents |-> contents,
     size |-> JNum(20),
     downloadCount |-> JNum(10),
     md5 |-> JStr("000000000000000000000000000001ff"),
     mimetype |-> JStr(mimetype),
     serverChoosen |-> JStr("fez"),
     link |-> JStr("http://example.com/path/file.txt")]

ContentKeys == DOMAIN FullContent(1, "folder", <<>>, JNull)
FolderKeys == {"code", "public", "childrenIds", "totalDownloadCount",
               "totalSize", "contents"}
FileKeys == {"size", "downloadCount", "md5", "mimetype", "serverChoosen", "link"}
RootOnlyKeys == {"totalDownloadCount", "totalSize", "contents"}

GoodMime == <<"t", "/", "p">>

\* A folder as a child of a fetched folder, a file, and the fetched folder.
ChildFolderDoc(id) ==
    JObj(Without(FullContent(id, "folder", GoodMime, JNull),
                 RootOnlyKeys \cup FileKeys \cup {"public"}))
FileDoc(id) ==
    JObj(Without(FullContent(id, "file", GoodMime, JNull), FolderKeys))
RootFolderDoc ==
    JObj(Without(FullContent(1, "folder", GoodMime,
                             JObj((UuidStr(2) :> ChildFolderDoc(2))
                                  @@ (UuidStr(17) :> FileDoc(17)))),
                 FileKeys))

AccountDetailsDoc ==
    JObj([id |-> JStr(UuidStr(1)), token |-> JStr("tokA"), email |-> JStr("bar"),
          tier |-> JStr("baz"), rootFolder |-> JStr(UuidStr(2)),
          filesCount |-> JNum(1), totalSize |-> JNum(2)])

UploadedFileDoc ==
    JObj([downloadPage |-> JStr("http://example.com/path/file.txt"),
          code |-> JStr("bar"), parentFolder |-> JStr(UuidStr(1)),
          fileId |-> JStr(UuidStr(2)), fileName |-> JStr("baz"),
          md5 |-> JStr("000000000000000000000000000001ff")])

EmptyObject == JObj(<<>>)

\* The data of a response to a request that expects T: of T's shape, or the
\* empty object.
DataFor(T) ==
    {EmptyObject} \cup
    CASE T = "Servers" -> {ServersJson(n) : n \in SeqsUpTo(ServerNames, MaxList)}
      [] T = "Content" -> {RootFolderDoc, FileDoc(2)}
      [] T = "Uuid" -> {JStr(UuidStr(1))}
      [] T = "Url" -> {JStr("http://example.com/path/file.txt")}
      [] T = "AccountDetails" -> {AccountDetailsDoc}
      [] T = "UploadedFile" -> {UploadedFileDoc}
      [] T = "NoInfo" -> {}

EnvelopeStatuses == {"ok", "error-notFound"}
StatusCodes == {200, 201, 404}
IsSuccess(code) == code \in 200..299

\* Response bodies: not JSON, an envelope, an envelope without data.
Bodies(T) ==
    {[json |-> FALSE]}
    \cup {[json |-> TRUE, value |-> JObj([status |-> JStr(st), data |-> d])] :
            st \in EnvelopeStatuses, d \in DataFor(T)}
    \cup {[json |-> TRUE, value |-> JObj([status |-> JStr(st)])] :
            st \in EnvelopeStatuses}

Responses(T) == {[status |-> c, body |-> b] : c \in StatusCodes, b \in Bodies(T)}

----------------------------------------------------------------------------
(* The client: the caller calls one operation at a time; an operation checks
   its arguments, sends its request and, when the response or a transport
   error arrives, returns. *)

Init ==
    /\ api \in {[base_url |-> DefaultBaseUrl], [base_url |-> MockBaseUrl]}
    /\ authorized_api = Absent
    /\ server_api = [base_url |-> MockBaseUrl]
    /\ authorized_server_api = Absent
    /\ pc = "idle"
    /\ call = Absent
    /\ request = Absent
    /\ response = Absent
    /\ result = Absent
    /\ ncalls = 0
    /\ nrequests = 0
    /\ sent = 0
    /\ progress = <<>>
    /\ input = Absent
    /\ output = Absent
    /\ tasks = Absent

CanCall == pc = "idle" /\ ncalls < MaxCalls

\* A faulty client, one that answers a get_server from the handle an earlier
\* get_server left, without a request: C10 tells it from the real one.
SendCached(op, self, args, T, req) ==
    /\ CanCall
    /\ call' = [op |-> op, self |-> self, args |-> args, T |-> T]
    /\ ncalls' = ncalls + 1
    /\ IF op = "Api::get_server" /\ server_api # [base_url |-> MockBaseUrl]
       THEN /\ pc' = "returned"
            /\ result' = Ok(server_api)
            /\ UNCHANGED <<request, nrequests>>
       ELSE /\ pc' = "sent"
            /\ request' = req
            /\ nrequests' = nrequests + 1
            /\ UNCHANGED result
    /\ UNCHANGED <<response, sent, progress, handles, pure>>

\* The operation op of self, called with args and expecting a T, sends req
\* (reqwest::get, RequestBuilder::send) and awaits the response.
Send(op, self, args, T, req) ==
    /\ CanCall
    /\ call' = [op |-> op, self |-> self, args |-> args, T |-> T]
    /\ request' = req
    /\ pc' = "sent"
    /\ ncalls' = ncalls + 1
    /\ nrequests' = nrequests + 1
    /\ UNCHANGED <<response, result, sent, progress, handles, pure>>

\* The operation returns err from a check of its arguments, before any
\* request.
Return(op, self, args, err) ==
    /\ CanCall
    /\ call' = [op |-> op, self |-> self, args |-> args, T |-> "none"]
    /\ pc' = "returned"
    /\ result' = err
    /\ ncalls' = ncalls + 1
    /\ UNCHANGED <<request, response, nrequests, sent, progress, handles, pure>>

\* Api::authorize and AuthorizedServerApi::authorize: no request.
Authorize ==
    \E token \in Tokens :
        /\ pc = "idle"
        /\ authorized_api' = Api_authorize(api, token)
        /\ UNCHANGED <<api, server_api, authorized_server_api, pc, call, request,
                       response, result, ncalls, nrequests, sent, progress, pure>>

ServerAuthorize ==
    \E token \in Tokens :
        /\ pc = "idle"
        /\ authorized_server_api # Absent
        /\ authorized_server_api' =
              AuthorizedServerApi_authorize(authorized_server_api, token)
        /\ UNCHANGED <<api, authorized_api, server_api, pc, call, request,
                       response, result, ncalls, nrequests, sent, progress, pure>>

GetServer ==
    Send("Api::get_server", api, <<>>, "Servers", Api_get_server(api))

AuthorizedGetServer ==
    /\ authorized_api # Absent
    /\ Send("AuthorizedApi::get_server", authorized_api, <<>>, "Servers",
            AuthorizedApi_get_server(authorized_api))

GetContent ==
    \E url \in ContentUrls :
        /\ authorized_api # Absent
        /\ LET code == code_from_content_url(url)
           IN  IF code.ok
               THEN Send("get_content", authorized_api, <<url>>, "Content",
                         get_content_by_code(authorized_api, code.value))
               ELSE Return("get_content", authorized_api, <<url>>, code)

GetContentById ==
    \E content_id \in Ids :
        /\ authorized_api # Absent
        /\ Send("get_content_by_id", authorized_api, <<content_id>>, "Content",
                get_content_by_id(authorized_api, content_id))

GetContentByCode ==
    \E code \in Codes :
        /\ authorized_api # Absent
        /\ Send("get_content_by_code", authorized_api, <<code>>, "Content",
                get_content_by_code(authorized_api, code))

GetAccountId ==
    /\ authorized_api # Absent
    /\ Send("get_account_id", authorized_api, <<>>, "Uuid",
            get_account_id(authorized_api))

GetAccountDetails ==
    \E account_id \in Ids :
        /\ authorized_api # Absent
        /\ Send("get_account_details", authorized_api, <<account_id>>,
                "AccountDetails", get_account_details(authorized_api, account_id))

CreateFolder ==
    \E parent_folder_id \in Ids, folder_name \in FolderNames :
        /\ authorized_api # Absent
        /\ Send("create_folder", authorized_api, <<parent_folder_id, folder_name>>,
                "Content", create_folder(authorized_api, parent_folder_id, folder_name))

\* set_option::<T>, which set_public_option, set_password_option,
\* set_description_option, set_expire_option, set_tags_option and
\* disable_direct_link call with T = NoInfo, get_direct_link with T = Url.
SetOption ==
    \E content_id \in Ids, opt \in ClientOpts, T \in {"NoInfo", "Url"} :
        /\ authorized_api # Absent
        /\ Send("set_option", authorized_api, <<content_id, opt>>, T,
                set_option(authorized_api, content_id, opt))

CopyContent ==
    \E content_ids \in IdLists, dest_folder_id \in Ids :
        /\ authorized_api # Absent
        /\ Send("copy_content", authorized_api, <<content_ids, dest_folder_id>>,
                "NoInfo", copy_content(authorized_api, content_ids, dest_folder_id))

DeleteContent ==
    \E content_ids \in IdLists :
        /\ authorized_api # Absent
        /\ Send("delete_content", authorized_api, <<content_ids>>, "NoInfo",
                delete_content(authorized_api, content_ids))

\* ServerApi::upload_file and upload_file_to_folder: open_file, then the
\* upload with the file's name and the file as the body.
UploadFile ==
    \E path \in Paths :
        LET opened == open_file(path)
        IN  IF opened.ok
            THEN Send("ServerApi::upload_file", server_api, <<path>>, "UploadedFile",
                      ServerApi_upload_file_with_filename(
                          server_api, opened.value.filename, opened.value.file))
            ELSE Return("ServerApi::upload_file", server_api, <<path>>, opened)

UploadFileToFolder ==
    \E folder_id \in Ids, path \in Paths :
        LET opened == open_file(path)
        IN  IF opened.ok
            THEN Send("ServerApi::upload_file_to_folder", server_api,
                      <<folder_id, path>>, "UploadedFile",
                      ServerApi_upload_file_with_filename_to_folder(
                          server_api, folder_id, opened.value.filename,
                          opened.value.file))
            ELSE Return("ServerApi::upload_file_to_folder", server_api,
                        <<folder_id, path>>, opened)

UploadFileWithFilename ==
    \E filename \in FileNames, body \in UploadBodies :
        Send("ServerApi::upload_file_with_filename", server_api,
             <<filename, body>>, "UploadedFile",
             ServerApi_upload_file_with_filename(server_api, filename, body))

UploadFileWithFilenameToFolder ==
    \E folder_id \in Ids, filename \in FileNames, body \in UploadBodies :
        Send("ServerApi::upload_file_with_filename_to_folder", server_api,
             <<folder_id, filename, body>>, "UploadedFile",
             ServerApi_upload_file_with_filename_to_folder(
                 server_api, folder_id, filename, body))

\* The same four of AuthorizedServerApi.
AuthorizedUploadFile ==
    \E path \in Paths :
        /\ authorized_server_api # Absent
        /\ LET opened == open_file(path)
           IN  IF opened.ok
               THEN Send("AuthorizedServerApi::upload_file", authorized_server_api,
                         <<path>>, "UploadedFile",
                         AuthorizedServerApi_upload_file_with_filename(
                             authorized_server_api, opened.value.filename,
                             opened.value.file))
               ELSE Return("AuthorizedServerApi::upload_file",
                           authorized_server_api, <<path>>, opened)

AuthorizedUploadFileToFolder ==
    \E folder_id \in Ids, path \in Paths :
        /\ authorized_server_api # Absent
        /\ LET opened == open_file(path)
           IN  IF opened.ok
               THEN Send("AuthorizedServerApi::upload_file_to_folder",
                         authorized_server_api, <<folder_id, path>>, "UploadedFile",
                         AuthorizedServerApi_upload_file_with_filename_to_folder(
                             authorized_server_api, folder_id,
                             opened.value.filename, opened.value.file))
               ELSE Return("AuthorizedServerApi::upload_file_to_folder",
                           authorized_server_api, <<folder_id, path>>, opened)

AuthorizedUploadFileWithFilename ==
    \E filename \in FileNames, body \in UploadBodies :
        /\ authorized_server_api # Absent
        /\ Send("AuthorizedServerApi::upload_file_with_filename",
                authorized_server_api, <<filename, body>>, "UploadedFile",
                AuthorizedServerApi_upload_file_with_filename(
                    authorized_server_api, filename, body))

AuthorizedUploadFileWithFilenameToFolder ==
    \E folder_id \in Ids, filename \in FileNames, body \in UploadBodies :
        /\ authorized_server_api # Absent
        /\ Send("AuthorizedServerApi::upload_file_with_filename_to_folder",
                authorized_server_api, <<folder_id, filename, body>>, "UploadedFile",
                AuthorizedServerApi_upload_file_with_filename_to_folder(
                    authorized_server_api, folder_id, filename, body))

\* The size of the body the request streams; 0 for a request that is no
\* upload.
IsUpload(req) == "multipart" \in DOMAIN req.body
BodySize(req) == IF IsUpload(req) THEN req.body.multipart[1].stream.size ELSE 0

\* The HTTP client reads the next n bytes of the upload's body and sends
\* them.  upload_file_impl passes the body to Part::stream and takes no
\* callback: nothing is reported to the caller.
StreamChunk ==
    \E n \in 1..MaxSize :
        /\ pc = "sent"
        /\ IsUpload(request)
        /\ sent + n <= BodySize(request)
        /\ sent' = sent + n
        /\ UNCHANGED <<handles, pc, call, request, response, result, ncalls,
                       nrequests, progress, pure>>

\* What the operation returns, given what parse_res or `?` gave it.
Finish(c, parsed) ==
    CASE c.op = "Api::get_server" -> Api_get_server_result(parsed)
      [] c.op = "AuthorizedApi::get_server" ->
            AuthorizedApi_get_server_result(c.self, parsed)
      [] OTHER -> parsed

\* The caller keeps the handle a get_server returned.
Returned(res, r) ==
    /\ pc' = "returned"
    /\ response' = res
    /\ result' = r
    /\ server_api' = IF call.op = "Api::get_server" /\ r.ok
                      THEN r.value ELSE server_api
    /\ authorized_server_api' = IF call.op = "AuthorizedApi::get_server" /\ r.ok
                                 THEN r.value ELSE authorized_server_api
    /\ UNCHANGED <<api, authorized_api, call, request, ncalls, nrequests, sent,
                   progress, pure>>

\* The request fails in transport: `?` turns the reqwest::Error into
\* Error::HttpRequestError.
TransportError ==
    /\ pc = "sent"
    /\ Returned(Absent, Finish(call, HttpRequestError))

\* The response arrives, after the whole body was sent, and is parsed.
Respond ==
    /\ pc = "sent"
    /\ sent = BodySize(request)
    /\ \E res \in Responses(call.T) :
          Returned(res, Finish(call, parse_res(call.T, request.url, res)))

\* The caller takes the result: the call's future, and with it the request
\* and the response, is gone.
Drop ==
    /\ pc = "returned"
    /\ pc' = "idle"
    /\ call' = Absent
    /\ request' = Absent
    /\ response' = Absent
    /\ result' = Absent
    /\ nrequests' = 0
    /\ sent' = 0
    /\ progress' = <<>>
    /\ UNCHANGED <<handles, ncalls, pure>>

Next ==
    \/ Authorize
    \/ ServerAuthorize
    \/ GetServer
    \/ AuthorizedGetServer
    \/ GetContent
    \/ GetContentById
    \/ GetContentByCode
    \/ GetAccountId
    \/ GetAccountDetails
    \/ CreateFolder
    \/ SetOption
    \/ CopyContent
    \/ DeleteContent
    \/ UploadFile
    \/ UploadFileToFolder
    \/ UploadFileWithFilename
    \/ UploadFileWithFilenameToFolder
    \/ AuthorizedUploadFile
    \/ AuthorizedUploadFileToFolder
    \/ AuthorizedUploadFileWithFilename
    \/ AuthorizedUploadFileWithFilenameToFolder
    \/ StreamChunk
    \/ TransportError
    \/ Respond
    \/ Drop

Spec == Init /\ [][Next]_vars

----------------------------------------------------------------------------
(* The decoder of Content on its own: a record is drawn, then decoded. *)

TypeTags == {"folder", "file", "symlink"}

BadMime == <<"t", "p">>

\* The nested mapping of a fetched folder: of a folder and a file; of a
\* folder and a file that lacks its link; of a folder that has a mapping
\* of its own.
GoodContents ==
    JObj((UuidStr(2) :> ChildFolderDoc(2)) @@ (UuidStr(17) :> FileDoc(17)))
BadContents ==
    JObj((UuidStr(2) :> ChildFolderDoc(2))
         @@ (UuidStr(17) :> JObj(Without(FileDoc(17).obj, {"link"}))))
DeepContents ==
    JObj(UuidStr(2) :>
            JObj(Without(FullContent(2, "folder", GoodMime, GoodContents),
                         FileKeys)))

\* The sets of at most n keys of a Content record.
RECURSIVE KeySets(_)
KeySets(n) ==
    IF n = 0 THEN {{}}
    ELSE KeySets(n - 1) \cup {K \cup {k} : K \in KeySets(n - 1), k \in ContentKeys}

\* Records of each type tag: with every field, with the fields of one
\* variant, or with those of a folder below the fetched one, and then
\* without up to MaxMissing more.
ContentDocs ==
    {JObj(Without(FullContent(1, ty, mime, contents), B \cup K)) :
        ty \in TypeTags,
        mime \in {GoodMime, BadMime},
        contents \in {GoodContents, BadContents, DeepContents},
        B \in {{}, FileKeys, FolderKeys, RootOnlyKeys \cup FileKeys \cup {"public"}},
        K \in KeySets(MaxMissing)}

ClientUnused ==
    /\ api = Api_default
    /\ authorized_api = Absent
    /\ server_api = [base_url |-> MockBaseUrl]
    /\ authorized_server_api = Absent
    /\ pc = "idle"
    /\ call = Absent
    /\ request = Absent
    /\ response = Absent
    /\ result = Absent
    /\ ncalls = 0
    /\ nrequests = 0
    /\ sent = 0
    /\ progress = <<>>
    /\ tasks = Absent

client == <<api, authorized_api, server_api, authorized_server_api, pc, call,
            request, response, result, ncalls, nrequests, sent, progress,
            tasks>>

\* The mimetype strings: the strings of up to MaxMime characters of a token
\* and "/".
MimeStrings == SeqsUpTo(MimeTokenChars \cup {"/"}, MaxMime)

\* Records of a file and of a folder with every field, of each mimetype
\* string.
MimeDocs ==
    {JObj(FullContent(1, ty, mime, GoodContents)) :
        ty \in {"file", "folder"}, mime \in MimeStrings}

InitDecode ==
    /\ ClientUnused
    /\ input \in ContentDocs \cup MimeDocs
    /\ output = Absent

\* serde_json::from_value::<Content>.
DecodeInput ==
    /\ output = Absent
    /\ output' = DecodeContent(input)
    /\ UNCHANGED <<input, client>>

SpecDecode == InitDecode /\ [][DecodeInput]_vars

----------------------------------------------------------------------------
(* The encoders of the request payloads on their own: a payload is drawn,
   then serialized. *)

Strings == {<<>>, <<"b", "a", "r">>, <<"b", "a", "z">>, <<"a", ",", "b">>}

\* DateTime<Utc>: whole seconds since the epoch and nanoseconds.
DateTimes == {[secs |-> 1000000000, nanos |-> 0], [secs |-> 1000000000, nanos |-> 999],
              [secs |-> 0, nanos |-> 0], [secs |-> -1, nanos |-> 5]}

ContentOpts ==
    {[Public |-> b] : b \in BOOLEAN}
    \cup {[DirectLink |-> b] : b \in BOOLEAN}
    \cup {[Password |-> x] : x \in Strings}
    \cup {[Description |-> x] : x \in Strings}
    \cup {[Expire |-> t] : t \in DateTimes}
    \cup {[Tags |-> l] : l \in SeqsUpTo(Strings, MaxList)}

Payloads ==
    {[struct |-> "UpdateContentApiPayload", token |-> t, opt |-> o] :
        t \in Tokens, o \in ContentOpts}
    \cup {[struct |-> "CreateFolderApiPayload", token |-> t,
           parent_folder_id |-> u, folder_name |-> "bar"] :
        t \in Tokens, u \in Uuids}
    \cup {[struct |-> "CopyContentApiPayload", token |-> t,
           contents_id |-> l, folder_id_dest |-> u] :
        t \in Tokens, l \in SeqsUpTo(Uuids, MaxList), u \in Uuids}
    \cup {[struct |-> "DeleteContentApiPayload", token |-> t, contents_id |-> l] :
        t \in Tokens, l \in SeqsUpTo(Uuids, MaxList)}

\* serde_json::to_value of a payload.
Serialize(p) ==
    CASE p.struct = "UpdateContentApiPayload" -> SerializeUpdateContent(p)
      [] p.struct = "CreateFolderApiPayload" -> SerializeCreateFolder(p)
      [] p.struct = "CopyContentApiPayload" -> SerializeCopyContent(p)
      [] p.struct = "DeleteContentApiPayload" -> SerializeDeleteContent(p)

InitSerialize ==
    /\ ClientUnused
    /\ input \in Payloads
    /\ output = Absent

SerializeInput ==
    /\ output = Absent
    /\ output' = Serialize(input)
    /\ UNCHANGED <<input, client>>

SpecSerialize == InitSerialize /\ [][SerializeInput]_vars

----------------------------------------------------------------------------
(* examples/copy_content.rs: tasks that run at once, each with clones of the
   caller's handles. *)

Tasks == {1, 2}

\* The caller's handles, by type.
Handles ==
    [Api |-> api, AuthorizedApi |-> authorized_api, ServerApi |-> server_api,
     AuthorizedServerApi |-> authorized_server_api]

GoodPath == [file_name |-> Some("test.txt"), utf8 |-> TRUE, file |-> Some([size |-> 1])]
BadPath == [file_name |-> None, utf8 |-> TRUE, file |-> None]
TaskUrls ==
    {[host |-> "gofile.io", segs |-> Some(<<"d", "foo">>), query |-> ""],
     [host |-> "gofile.io", segs |-> Some(<<"foo">>), query |-> ""]}

\* The calls a task makes: the type of the handle, the operation, its
\* arguments and the type of the data it expects.
TaskCall(kind, op, args, T) == [kind |-> kind, op |-> op, args |-> args, T |-> T]
ApiCalls == {TaskCall("Api", "Api::get_server", <<>>, "Servers")}
AuthorizedApiCalls ==
    {TaskCall("AuthorizedApi", "AuthorizedApi::get_server", <<>>, "Servers"),
     TaskCall("AuthorizedApi", "get_content_by_id", <<1>>, "Content"),
     TaskCall("AuthorizedApi", "get_content_by_code", <<"foo">>, "Content"),
     TaskCall("AuthorizedApi", "get_account_id", <<>>, "Uuid"),
     TaskCall("AuthorizedApi", "get_account_details", <<1>>, "AccountDetails"),
     TaskCall("AuthorizedApi", "create_folder", <<1, "src">>, "Content"),
     TaskCall("AuthorizedApi", "set_option", <<1, [Public |-> TRUE]>>, "NoInfo"),
     TaskCall("AuthorizedApi", "copy_content", <<(<<1, 17>>), 1>>, "NoInfo"),
     TaskCall("AuthorizedApi", "delete_content", <<(<<1>>)>>, "NoInfo")}
    \cup {TaskCall("AuthorizedApi", "get_content", <<u>>, "Content") : u \in TaskUrls}
ServerApiCalls ==
    {TaskCall("ServerApi", "ServerApi::upload_file", <<p>>, "UploadedFile") :
        p \in {GoodPath, BadPath}}
    \cup {TaskCall("ServerApi", "ServerApi::upload_file_to_folder", <<1, GoodPath>>,
                   "UploadedFile"),
          TaskCall("ServerApi", "ServerApi::upload_file_with_filename",
                   <<"test.txt", [size |-> 1]>>, "UploadedFile"),
          TaskCall("ServerApi", "ServerApi::upload_file_with_filename_to_folder",
                   <<1, "test.txt", [size |-> 1]>>, "UploadedFile")}
AuthorizedServerApiCalls ==
    {TaskCall("AuthorizedServerApi", "AuthorizedServerApi::upload_file", <<p>>,
              "UploadedFile") : p \in {GoodPath, BadPath}}
    \cup {TaskCall("AuthorizedServerApi", "AuthorizedServerApi::upload_file_to_folder",
                   <<1, GoodPath>>, "UploadedFile"),
          TaskCall("AuthorizedServerApi",
                   "AuthorizedServerApi::upload_file_with_filename",
                   <<"test.txt", [size |-> 1]>>, "UploadedFile"),
          TaskCall("AuthorizedServerApi",
                   "AuthorizedServerApi::upload_file_with_filename_to_folder",
                   <<1, "test.txt", [size |-> 1]>>, "UploadedFile")}
TaskCalls == ApiCalls \cup AuthorizedApiCalls \cup ServerApiCalls \cup AuthorizedServerApiCalls

\* The upload of the handle self of the type kind, to the folder if one is
\* given.
UploadRequest(kind, self, folder_id, filename, body) ==
    CASE kind = "ServerApi" /\ folder_id = None ->
            ServerApi_upload_file_with_filename(self, filename, body)
      [] kind = "ServerApi" /\ folder_id # None ->
            ServerApi_upload_file_with_filename_to_folder(
                self, folder_id[1], filename, body)
      [] kind = "AuthorizedServerApi" /\ folder_id = None ->
            AuthorizedServerApi_upload_file_with_filename(self, filename, body)
      [] kind = "AuthorizedServerApi" /\ folder_id # None ->
            AuthorizedServerApi_upload_file_with_filename_to_folder(
                self, folder_id[1], filename, body)

\* upload_file and upload_file_to_folder: open_file, then the upload with
\* the file name and the file; the error of open_file when it fails.
UploadFromPath(kind, self, folder_id, path) ==
    LET opened == open_file(path)
    IN  IF opened.ok
        THEN Ok(UploadRequest(kind, self, folder_id, opened.value.filename,
                              opened.value.file))
        ELSE opened

\* The request the operation of the call c sends when called on self, or
\* the error it returns before it sends one.
AuthorizedApiRequest(c, self) ==
    CASE c.op = "AuthorizedApi::get_server" -> Ok(AuthorizedApi_get_server(self))
      [] c.op = "get_content" ->
            IF code_from_content_url(c.args[1]).ok
            THEN Ok(get_content_by_code(self, code_from_content_url(c.args[1]).value))
            ELSE code_from_content_url(c.args[1])
      [] c.op = "get_content_by_id" -> Ok(get_content_by_id(self, c.args[1]))
      [] c.op = "get_content_by_code" -> Ok(get_content_by_code(self, c.args[1]))
      [] c.op = "get_account_id" -> Ok(get_account_id(self))
      [] c.op = "get_account_details" -> Ok(get_account_details(self, c.args[1]))
      [] c.op = "create_folder" -> Ok(create_folder(self, c.args[1], c.args[2]))
      [] c.op = "set_option" -> Ok(set_option(self, c.args[1], c.args[2]))
      [] c.op = "copy_content" -> Ok(copy_content(self, c.args[1], c.args[2]))
      [] c.op = "delete_content" -> Ok(delete_content(self, c.args[1]))

ServerApiRequest(c, self) ==
    CASE c.op = "ServerApi::upload_file" ->
            UploadFromPath(c.kind, self, None, c.args[1])
      [] c.op = "ServerApi::upload_file_to_folder" ->
            UploadFromPath(c.kind, self, Some(c.args[1]), c.args[2])
      [] c.op = "ServerApi::upload_file_with_filename" ->
            Ok(UploadRequest(c.kind, self, None, c.args[1], c.args[2]))
      [] c.op = "ServerApi::upload_file_with_filename_to_folder" ->
            Ok(UploadRequest(c.kind, self, Some(c.args[1]), c.args[2], c.args[3]))

AuthorizedServerApiRequest(c, self) ==
    CASE c.op = "AuthorizedServerApi::upload_file" ->
            UploadFromPath(c.kind, self, None, c.args[1])
      [] c.op = "AuthorizedServerApi::upload_file_to_folder" ->
            UploadFromPath(c.kind, self, Some(c.args[1]), c.args[2])
      [] c.op = "AuthorizedServerApi::upload_file_with_filename" ->
            Ok(UploadRequest(c.kind, self, None, c.args[1], c.args[2]))
      [] c.op = "AuthorizedServerApi::upload_file_with_filename_to_folder" ->
            Ok(UploadRequest(c.kind, self, Some(c.args[1]), c.args[2], c.args[3]))

RequestOf(c, self) ==
    CASE c.kind = "Api" -> Ok(Api_get_server(self))
      [] c.kind = "AuthorizedApi" -> AuthorizedApiRequest(c, self)
      [] c.kind = "ServerApi" -> ServerApiRequest(c, self)
      [] c.kind = "AuthorizedServerApi" -> AuthorizedServerApiRequest(c, self)

\* A faulty operation, one that keeps the server it was given in the handle
\* it was called on: C11 tells it from the real one.
SelfAfterSticky(self, c, r) ==
    IF r.ok /\ c.T = "Servers"
    THEN [self EXCEPT !.base_url = r.value.base_url]
    ELSE self

\* The handle after the call c on it returned r: every operation takes
\* &self and the handles have no interior mutability.
SelfAfter(self, c, r) == self

IdleTask(hs) ==
    [handles |-> hs, pc |-> "idle", call |-> Absent, request |-> Absent,
     result |-> Absent]

\* The caller has a handle of each type; each task gets clones of them.
InitClones ==
    /\ api \in {[base_url |-> DefaultBaseUrl], [base_url |-> MockBaseUrl]}
    /\ authorized_api = Api_authorize(api, "tokA")
    /\ server_api = [base_url |-> "https://store1.gofile.io"]
    /\ authorized_server_api = [base_url |-> "https://store3.gofile.io", token |-> "tokB"]
    /\ pc = "idle"
    /\ call = Absent
    /\ request = Absent
    /\ response = Absent
    /\ result = Absent
    /\ ncalls = 0
    /\ nrequests = 0
    /\ sent = 0
    /\ progress = <<>>
    /\ input = Absent
    /\ output = Absent
    /\ tasks = [t \in Tasks |-> IdleTask(Handles)]

notasks == <<api, authorized_api, server_api, authorized_server_api, pc, call,
             request, response, result, ncalls, nrequests, sent, progress,
             input, output>>

\* The task t calls an operation on its clone of a handle: the operation
\* sends its request, or returns from the check of its arguments.
TaskSend(t) ==
    \E c \in TaskCalls :
        LET self == tasks[t].handles[c.kind]
            req == RequestOf(c, self)
            called == [self |-> self] @@ c
        IN  /\ tasks[t].pc = "idle"
            /\ tasks' = [tasks EXCEPT ![t] =
                  IF req.ok
                  THEN [@ EXCEPT !.pc = "sent", !.call = called,
                                 !.request = req.value]
                  ELSE [@ EXCEPT !.pc = "returned", !.call = called,
                                 !.result = req,
                                 !.handles[c.kind] = SelfAfter(self, c, req)]]
            /\ UNCHANGED notasks

\* The call of the task t returns r.
TaskReturned(t, r) ==
    LET c == tasks[t].call
    IN  /\ tasks' = [tasks EXCEPT ![t] =
              [@ EXCEPT !.pc = "returned", !.result = r,
                        !.handles[c.kind] = SelfAfter(@, c, r)]]
        /\ UNCHANGED notasks

\* The request of the task t fails in transport.
TaskTransportError(t) ==
    /\ tasks[t].pc = "sent"
    /\ TaskReturned(t, Finish(tasks[t].call, HttpRequestError))

\* The response to the request of the task t arrives and is parsed.
TaskRespond(t) ==
    /\ tasks[t].pc = "sent"
    /\ \E res \in Responses(tasks[t].call.T) :
          TaskReturned(t, Finish(tasks[t].call,
              parse_res(tasks[t].call.T, tasks[t].request.url, res)))

\* The task t takes the result; it keeps its clones for its next call.
TaskDrop(t) ==
    /\ tasks[t].pc = "returned"
    /\ tasks' = [tasks EXCEPT ![t] = IdleTask(@.handles)]
    /\ UNCHANGED notasks

NextClones ==
    \E t \in Tasks :
        \/ TaskSend(t)
        \/ TaskTransportError(t)
        \/ TaskRespond(t)
        \/ TaskDrop(t)

SpecClones == InitClones /\ [][NextClones]_vars

----------------------------------------------------------------------------
(* The claims. *)

\* The status of the envelope in a response body, if the body is one.
EnvelopeStatus(body) ==
    IF body.json /\ IsObj(body.value) /\ Has(body.value.obj, "status")
       /\ IsStr(body.value.obj["status"])
    THEN Some(body.value.obj["status"].str)
    ELSE None

\* The call has returned after a response arrived.
Answered == pc = "returned" /\ response # Absent

StatusErrors == {"ApiStatusError", "HttpStatusCodeError"}

(* C1: whenever the response's envelope status is not "ok" or its HTTP
   status code is not a success code, the operation returns ApiStatusError
   or HttpStatusCodeError: never HttpRequestError, never Ok.  The code
   breaks this: with the code 200 it decodes the envelope as ApiResult<T>
   before it looks at the status, so an envelope whose data has not the
   shape of T comes back as HttpRequestError. *)
C1_StatusErrorNotTransportError ==
    (/\ Answered
     /\ \/ ~IsSuccess(response.status)
        \/ /\ EnvelopeStatus(response.body) # None
           /\ EnvelopeStatus(response.body) # Some("ok"))
    => (~result.ok /\ result.err \in StatusErrors)

----------------------------------------------------------------------------

Decoded == output # Absent

TypeOf(o) == IF Has(o, "type") /\ IsStr(o["type"]) THEN Some(o["type"].str) ELSE None

(* C2: a Content record decodes only if it has the four common fields and a
   "type" that is "folder" or "file"; it then decodes to Folder exactly when
   the type is "folder" and to File exactly when it is "file", and only if
   the required fields of that variant are there. *)
C2_VariantByTypeTag ==
    (Decoded /\ output.ok) =>
        LET o == input.obj
            variant == output.value.kind.variant
        IN  /\ CommonKeys \subseteq DOMAIN o
            /\ TypeOf(o) \in {Some("folder"), Some("file")}
            /\ variant = "Folder" <=> TypeOf(o) = Some("folder")
            /\ variant = "File" <=> TypeOf(o) = Some("file")
            /\ variant = "Folder" => {"code", "childrenIds"} \subseteq DOMAIN o
            /\ variant = "File" =>
                  {"size", "downloadCount", "md5", "mimetype", "serverChoosen",
                   "link"} \subseteq DOMAIN o

\* A folder record with its own fields and those of a file is decoded as a
\* folder.
C2_Witness ==
    /\ Decoded
    /\ output.ok
    /\ TypeOf(input.obj) = Some("folder")
    /\ FileKeys \subseteq DOMAIN input.obj
    /\ output.value.kind.variant = "Folder"

\* An Option field of the record o, as the decoded record has it.
OptionOf(o, k) == IF Has(o, k) THEN Some(o[k].num) ELSE None

\* The decoded folder f has decoded record o's root-only fields, "public"
\* and nested mapping as the claim says; each child c of the mapping is what
\* the decoder makes of c alone.
FolderAsRecord(f, o) ==
    /\ f.total_download_count = OptionOf(o, "totalDownloadCount")
    /\ f.total_size = OptionOf(o, "totalSize")
    /\ f.public = IF Has(o, "public") THEN o["public"].bool ELSE FALSE
    /\ IF ~Has(o, "contents") THEN f.contents = None
       ELSE /\ Len(f.contents) = 1
            /\ DOMAIN f.contents[1] =
                  {ParseUuid(k) : k \in DOMAIN o["contents"].obj}
            /\ \A k \in DOMAIN o["contents"].obj :
                  /\ DecodeContent(o["contents"].obj[k]).ok
                  /\ f.contents[1][ParseUuid(k)] =
                        DecodeContent(o["contents"].obj[k]).value
                  /\ f.contents[1][ParseUuid(k)].id = ParseUuid(k)

\* The record has what a folder must have.
FolderRequired(o) ==
    /\ CommonKeys \cup {"code", "childrenIds"} \subseteq DOMAIN o
    /\ TypeOf(o) = Some("folder")

(* C3: a folder record decodes with and without the root-only fields: each
   of totalDownloadCount, totalSize and contents is Some when present and
   None when absent, contents a map from child id to the child decoded as a
   Content of its own, and an absent "public" is false.  A folder record
   whose children decode is decoded; one with a child that does not is not. *)
C3_RootOnlyFieldsOptional ==
    Decoded =>
        LET o == input.obj
        IN  /\ (output.ok /\ output.value.kind.variant = "Folder")
                  => FolderAsRecord(output.value.kind, o)
            /\ (FolderRequired(o) /\ ~Has(o, "contents")) => output.ok
            /\ (FolderRequired(o) /\ Has(o, "contents")) =>
                  (output.ok <=> o["contents"] # BadContents)

\* The fetched folder has the mapping; its child folder has a mapping too;
\* the folder below that one has none, and no "public".
C3_Witness ==
    /\ Decoded
    /\ output.ok
    /\ Has(input.obj, "contents")
    /\ input.obj["contents"] = DeepContents
    /\ output.value.kind.total_size = Some(20)
    /\ LET child == output.value.kind.contents[1][2]
           grandchild == child.kind.contents[1][2]
       IN  /\ child.kind.variant = "Folder"
           /\ grandchild.kind.variant = "Folder"
           /\ grandchild.kind.contents = None
           /\ grandchild.kind.total_download_count = None
           /\ grandchild.kind.public = FALSE
           /\ child.kind.contents[1][17].kind.variant = "File"

----------------------------------------------------------------------------

(* C4: an upload reports the cumulative number of bytes sent, in reports
   that never decrease and never exceed the size of the file, the last one
   the size of the file.  The code breaks this: upload_file_impl has no
   parameter to report to and reports nothing, so that an upload of a file
   that is not empty ends with no report at all. *)
C4_ProgressSaturatesAtSize ==
    (Answered /\ IsUpload(request)) =>
        /\ \A i \in DOMAIN progress : progress[i] <= BodySize(request)
        /\ \A i \in DOMAIN progress : \A j \in DOMAIN progress :
              i <= j => progress[i] <= progress[j]
        /\ BodySize(request) > 0 =>
              /\ progress # <<>>
              /\ progress[Len(progress)] = BodySize(request)

----------------------------------------------------------------------------

\* The places of a request where a token is: the positions in the query,
\* the JSON body, the positions in the form.
QueryTokenAt(req) ==
    {i \in DOMAIN req.url.query : req.url.query[i][1] = "token"}
JsonTokens(req) ==
    IF "json" \in DOMAIN req.body /\ Has(req.body.json.obj, "token")
    THEN {req.body.json.obj["token"]}
    ELSE {}
FormTokenAt(req) ==
    IF IsUpload(req)
    THEN {i \in DOMAIN req.body.multipart : req.body.multipart[i].name = "token"}
    ELSE {}

CarriesNoToken(req) ==
    QueryTokenAt(req) = {} /\ JsonTokens(req) = {} /\ FormTokenAt(req) = {}

\* The request has the token tok once, where a request of its method has it.
CarriesToken(req, tok) ==
    CASE req.method = "GET" ->
            /\ Cardinality(QueryTokenAt(req)) = 1
            /\ \A i \in QueryTokenAt(req) : req.url.query[i][2] = tok
            /\ JsonTokens(req) = {} /\ FormTokenAt(req) = {}
      [] req.method \in {"PUT", "DELETE"} ->
            /\ JsonTokens(req) = {JStr(tok)}
            /\ QueryTokenAt(req) = {} /\ FormTokenAt(req) = {}
      [] req.method = "POST" ->
            /\ Cardinality(FormTokenAt(req)) = 1
            /\ \A i \in FormTokenAt(req) : req.body.multipart[i].text = tok
            /\ QueryTokenAt(req) = {} /\ JsonTokens(req) = {}

IsAuthorized(handle) == "token" \in DOMAIN handle

\* The AuthorizedServerApi that AuthorizedApi::get_server returned has the
\* token of the AuthorizedApi.
ReturnedHandleHasToken ==
    (pc = "returned" /\ call.op = "AuthorizedApi::get_server" /\ result.ok)
        => (result.value.token = call.self.token
            /\ authorized_server_api = result.value)

(* C5, as the claim has it: every request of an operation of an
   AuthorizedApi or AuthorizedServerApi has the token of the handle, once
   and in the place of its method; the handle AuthorizedApi::get_server
   returns has the same token; a request of an Api or ServerApi has no
   token.  AuthorizedApi::get_server breaks the first part: it asks
   Api::default() for the server, without the token. *)
C5_EveryAuthorizedRequestHasToken ==
    /\ request # Absent =>
          IF IsAuthorized(call.self)
          THEN CarriesToken(request, call.self.token)
          ELSE CarriesNoToken(request)
    /\ ReturnedHandleHasToken

(* C5, amended: the same, but for the request of AuthorizedApi::get_server,
   which is the GET of Api::default() to /servers and has no token. *)
C5_TokenThreading ==
    /\ request # Absent =>
          IF IsAuthorized(call.self) /\ call.op # "AuthorizedApi::get_server"
          THEN CarriesToken(request, call.self.token)
          ELSE CarriesNoToken(request)
    /\ (request # Absent /\ call.op = "AuthorizedApi::get_server") =>
          request.url = [base |-> DefaultBaseUrl, path |-> <<"servers">>,
                         query |-> <<>>]
    /\ ReturnedHandleHasToken

\* An upload of the AuthorizedServerApi that AuthorizedApi::get_server
\* returned is on its way, with the token of the AuthorizedApi in its form.
C5_Witness ==
    /\ pc = "sent"
    /\ call.op = "AuthorizedServerApi::upload_file_to_folder"
    /\ call.self.base_url = "https://store1.gofile.io"
    /\ authorized_api # Absent
    /\ call.self.token = authorized_api.token
    /\ request.body.multipart[3] = [name |-> "token", text |-> authorized_api.token]

----------------------------------------------------------------------------

\* The names of the servers a response body lists, in its order.
ListedServers(body) ==
    IF body.json /\ Has(body.value.obj, "data")
       /\ Has(body.value.obj["data"].obj, "servers")
    THEN LET arr == body.value.obj["data"].obj["servers"].arr
         IN  [i \in DOMAIN arr |-> arr[i].obj["name"].str]
    ELSE <<>>

\* The response is one of code 200 with the envelope status "ok".
OkResponse ==
    Answered /\ response.status = 200 /\ EnvelopeStatus(response.body) = Some("ok")

(* C6: Api::get_server sends one request, the GET of <base_url>/servers of
   the Api it is called on; when the "ok" response lists servers, it returns
   the ServerApi of "https://<name>.gofile.io", <name> the name of the first
   server listed. *)
C6_FirstServer ==
    (call # Absent /\ call.op = "Api::get_server") =>
        /\ nrequests = 1
        /\ request = [method |-> "GET",
                      url |-> [base |-> call.self.base_url,
                               path |-> <<"servers">>, query |-> <<>>],
                      body |-> NoBody]
        /\ (OkResponse /\ ListedServers(response.body) # <<>>) =>
              result = Ok([base_url |-> "https://"
                              \o ListedServers(response.body)[1]
                              \o ".gofile.io"])

\* The response lists store1 before store3; the ServerApi is store1's.
C6_Witness ==
    /\ OkResponse
    /\ call.op = "Api::get_server"
    /\ ListedServers(response.body) = <<"store1", "store3">>
    /\ result = Ok([base_url |-> "https://store1.gofile.io"])
    /\ server_api = [base_url |-> "https://store1.gofile.io"]

----------------------------------------------------------------------------

\* Uuid::to_string of the ids the client calls with.
IdString(id) ==
    IF id = 1 THEN "00000000-0000-0000-0000-000000000001"
    ELSE "00000000-0000-0000-0000-000000000011"

\* The path of the url is /d/<code>, with or without more segments.
IsContentUrl(url) ==
    /\ url.segs # None
    /\ Len(url.segs[1]) >= 2
    /\ url.segs[1][1] = "d"

\* The GET of <base_url>/contents/<code>?token=<token>.
ContentRequest(self, code) ==
    [method |-> "GET",
     url |-> [base |-> self.base_url, path |-> <<"contents", code>>,
              query |-> <<(<<"token", self.token>>)>>],
     body |-> NoBody]

\* The data of the response is a Content record; the result is that record
\* decoded.
ReturnsDecodedContent ==
    LET data == response.body.value.obj["data"]
    IN  DecodeContent(data).ok =>
            /\ result = Ok(DecodeContent(data).value)
            /\ result.value.id = ParseUuid(data.obj["id"].str)
            /\ result.value.name = data.obj["name"].str

(* C9: get_content of a url whose path is /d/<code> sends one request, the
   GET of <base_url>/contents/<code>?token=<token> with <code> the second
   segment of the path, whatever the host, the query and the segments after
   it, and returns the Content of the "ok" response, decoded;
   get_content_by_code and get_content_by_id send the same request with the
   code and with the id as a string. *)
C9_GetContent ==
    /\ (call # Absent /\ call.op = "get_content" /\ IsContentUrl(call.args[1])) =>
          /\ nrequests = 1
          /\ request = ContentRequest(call.self, call.args[1].segs[1][2])
    /\ (call # Absent /\ call.op = "get_content_by_code") =>
          (nrequests = 1 /\ request = ContentRequest(call.self, call.args[1]))
    /\ (call # Absent /\ call.op = "get_content_by_id") =>
          (nrequests = 1
           /\ request = ContentRequest(call.self, IdString(call.args[1])))
    /\ (OkResponse /\ Has(response.body.value.obj, "data")
        /\ call.op \in {"get_content", "get_content_by_code", "get_content_by_id"})
          => ReturnsDecodedContent

\* get_content of example.com/d/foo/d?a=1 returned the folder of the
\* response to its GET of contents/foo.
C9_Witness ==
    /\ OkResponse
    /\ call.op = "get_content"
    /\ call.args[1] = [host |-> "example.com", segs |-> Some(<<"d", "foo", "d">>),
                       query |-> "a=1"]
    /\ request.url.path = <<"contents", "foo">>
    /\ result.ok
    /\ result.value.kind.variant = "Folder"
    /\ result.value.kind.contents # None

----------------------------------------------------------------------------

\* The path has a file name, one that is UTF-8, and the file opens.
CanOpen(path) == path.file_name # None /\ path.utf8 /\ path.file # None

\* The checks of its arguments that the call makes before any request pass.
LocalChecksPass(c) ==
    CASE c.op = "get_content" -> IsContentUrl(c.args[1])
      [] c.op \in {"ServerApi::upload_file", "AuthorizedServerApi::upload_file"} ->
            CanOpen(c.args[1])
      [] c.op \in {"ServerApi::upload_file_to_folder",
                   "AuthorizedServerApi::upload_file_to_folder"} ->
            CanOpen(c.args[2])
      [] OTHER -> TRUE

LocalErrors == {"InvalidContentUrl", "InvalidFilePath", "CouldntOpenFile"}

(* C10: a call sends at most one request, and one when the checks of its
   arguments pass; it returns the failure of its request or the error of its
   response with no other request sent; a call after a call of the same
   operation sends a request of its own: no call returns but from its
   checks, from the failure of its one request or from the response to it. *)
C10_OneRequestPerCall ==
    /\ nrequests \in {0, 1}
    /\ pc = "idle" => (nrequests = 0 /\ request = Absent)
    /\ pc # "idle" =>
          /\ nrequests = 1 <=> LocalChecksPass(call)
          /\ nrequests = 1 <=> request # Absent
    /\ pc = "returned" =>
          /\ nrequests = 0 <=> (~result.ok /\ result.err \in LocalErrors)
          /\ (nrequests = 1 /\ response = Absent) => result = HttpRequestError

\* The second of two calls of get_server, the first of which returned a
\* ServerApi, has sent its request.
C10_Witness ==
    /\ ncalls = 2
    /\ pc = "sent"
    /\ call.op = "Api::get_server"
    /\ server_api = [base_url |-> "https://store1.gofile.io"]
    /\ nrequests = 1
    /\ request = Api_get_server(api)

----------------------------------------------------------------------------

Serialized == output # Absent

\* Where the element i of strs begins in strs joined by one character: after
\* the elements before it and a separator for each.
RECURSIVE Offset(_, _)
Offset(strs, i) ==
    IF i = 1 THEN 0 ELSE Offset(strs, i - 1) + Len(strs[i - 1]) + 1

\* r is the elements of strs in their order, a "," between two of them and
\* nowhere else around them.
IsJoined(r, strs) ==
    IF strs = <<>> THEN r = <<>>
    ELSE /\ Len(r) = Offset(strs, Len(strs)) + Len(strs[Len(strs)])
         /\ \A i \in DOMAIN strs :
               SubSeq(r, Offset(strs, i) + 1, Offset(strs, i) + Len(strs[i]))
                   = strs[i]
         /\ \A i \in 2..Len(strs) : r[Offset(strs, i)] = ","

\* The name and the value of the option in the JSON, as the claim has them.
IsOptionOf(name, value, opt) ==
    CASE "Public" \in DOMAIN opt ->
            /\ name = "public" /\ IsStr(value)
            /\ Str(value.str) = IF opt.Public THEN "true" ELSE "false"
      [] "DirectLink" \in DOMAIN opt ->
            /\ name = "directLink" /\ IsStr(value)
            /\ Str(value.str) = IF opt.DirectLink THEN "true" ELSE "false"
      [] "Password" \in DOMAIN opt ->
            name = "password" /\ IsStr(value) /\ value.str = opt.Password
      [] "Description" \in DOMAIN opt ->
            name = "description" /\ IsStr(value) /\ value.str = opt.Description
      [] "Expire" \in DOMAIN opt ->
            name = "expire" /\ IsNum(value) /\ value.num = opt.Expire.secs
      [] "Tags" \in DOMAIN opt ->
            name = "tags" /\ IsStr(value) /\ IsJoined(value.str, opt.Tags)

(* C7: an UpdateContentApiPayload is serialized as an object of the keys
   token, option and value and no other; option is the name of the variant
   in camelCase; value is the string "true" or "false" for Public and
   DirectLink, the string for Password and Description, the seconds since
   the epoch as an integer for Expire, the tags joined by "," in their order
   for Tags. *)
C7_ContentOptSerialization ==
    (Serialized /\ input.struct = "UpdateContentApiPayload") =>
        /\ IsObj(output)
        /\ DOMAIN output.obj = {"token", "option", "value"}
        /\ output.obj["token"] = JStr(input.token)
        /\ IsStr(output.obj["option"])
        /\ IsOptionOf(output.obj["option"].str, output.obj["value"], input.opt)
        /\ input.opt = [Tags |-> << <<"b", "a", "r">>, <<"b", "a", "z">> >>]
              => Str(output.obj["value"].str) = "bar,baz"

\* Public(true) is serialized with the string "true".
C7_Witness ==
    /\ Serialized
    /\ input.struct = "UpdateContentApiPayload"
    /\ input.opt = [Public |-> TRUE]
    /\ output.obj["option"] = JStr("public")
    /\ IsStr(output.obj["value"])
    /\ Str(output.obj["value"].str) = "true"

\* The ids of the payload, each as a string.
IdStrings(ids) == [i \in DOMAIN ids |-> UuidToString(ids[i])]

(* C8: a CopyContentApiPayload and a DeleteContentApiPayload are serialized
   with the one string contentsId, the ids joined by "," in the order of the
   list: no "," before the first or after the last, an id as often as the
   list has it, no "," for one id, the empty string for none.  The copy has
   folderIdDest too, the id of the destination. *)
C8_ContentsIdJoined ==
    (Serialized /\ input.struct \in {"CopyContentApiPayload", "DeleteContentApiPayload"}) =>
        /\ IsObj(output)
        /\ DOMAIN output.obj =
              IF input.struct = "CopyContentApiPayload"
              THEN {"token", "contentsId", "folderIdDest"}
              ELSE {"token", "contentsId"}
        /\ output.obj["token"] = JStr(input.token)
        /\ IsStr(output.obj["contentsId"])
        /\ IsJoined(output.obj["contentsId"].str, IdStrings(input.contents_id))
        /\ Len(input.contents_id) = 1 =>
              Len(output.obj["contentsId"].str) = 36
        /\ input.contents_id = <<1, 2>> =>
              Str(output.obj["contentsId"].str) =
                  "00000000-0000-0000-0000-000000000001,00000000-0000-0000-0000-000000000002"
        /\ input.struct = "CopyContentApiPayload" =>
              output.obj["folderIdDest"] = JStr(UuidToString(input.folder_id_dest))

\* A copy of the ids 17 and 1 to the folder 2.
C8_Witness ==
    /\ Serialized
    /\ input.struct = "CopyContentApiPayload"
    /\ input.contents_id = <<17, 1>>
    /\ Str(output.obj["contentsId"].str) =
          "00000000-0000-0000-0000-000000000011,00000000-0000-0000-0000-000000000001"
    /\ Str(output.obj["folderIdDest"].str) = "00000000-0000-0000-0000-000000000002"

----------------------------------------------------------------------------

\* The task's call is as the operation makes it of the caller's handle and
\* the arguments alone: the request it sent, or none and the error of the
\* check of the arguments.
CallOfHandleAndArguments(task) ==
    LET c == task.call
        made == RequestOf(c, Handles[c.kind])
    IN  /\ c.self = Handles[c.kind]
        /\ made.ok <=> task.request # Absent
        /\ made.ok => task.request = made.value
        /\ ~made.ok => (task.pc = "returned" /\ task.result = made)

(* C11: no operation changes the base_url or the token of the handle it is
   called on, whether it returns Ok or an error: after any calls of the
   tasks, in any order of their steps, the clones of each task are as the
   caller's handles, and the request of a call is what the operation makes
   of the handle and the arguments of that call. *)
C11_NoPersistentState ==
    \A t \in Tasks :
        /\ tasks[t].handles = Handles
        /\ tasks[t].pc # "idle" => CallOfHandleAndArguments(tasks[t])

\* One task's get_server has returned the server store3 to it and left its
\* clone as it was; the get_account_id of the other task, on its clone of the
\* same AuthorizedApi, is on its way to the base_url of the handle.
C11_Witness ==
    /\ api = [base_url |-> MockBaseUrl]
    /\ tasks[1].pc = "returned"
    /\ tasks[1].call.op = "AuthorizedApi::get_server"
    /\ tasks[1].result = Ok([base_url |-> "https://store3.gofile.io", token |-> "tokA"])
    /\ tasks[1].handles["AuthorizedApi"] = [base_url |-> MockBaseUrl, token |-> "tokA"]
    /\ tasks[2].pc = "sent"
    /\ tasks[2].call.op = "get_account_id"
    /\ tasks[2].request.url.base = MockBaseUrl

----------------------------------------------------------------------------

\* authorize gives a handle of the same base_url and the given token, on the
\* Api and on the AuthorizedServerApi the caller has; Api::default() is of
\* https://api.gofile.io.
AuthorizeKeepsBaseUrl ==
    /\ Api_default = [base_url |-> "https://api.gofile.io"]
    /\ \A tok \in Tokens :
          Api_authorize(api, tok) = [base_url |-> api.base_url, token |-> tok]
    /\ authorized_api # Absent =>
          (authorized_api.base_url = api.base_url /\ authorized_api.token \in Tokens)
    /\ authorized_server_api # Absent =>
          \A tok \in Tokens :
              AuthorizedServerApi_authorize(authorized_server_api, tok) =
                  [base_url |-> authorized_server_api.base_url, token |-> tok]

AuthorizedApiOps ==
    {"AuthorizedApi::get_server", "get_content", "get_content_by_id",
     "get_content_by_code", "get_account_id", "get_account_details",
     "create_folder", "set_option", "copy_content", "delete_content"}

\* The requests of the AuthorizedApi go to the base_url of the Api it was
\* made of.
AuthorizedRequestsGoToBaseUrl ==
    (request # Absent /\ call.op \in AuthorizedApiOps) =>
        request.url.base = api.base_url

(* C12: Api::authorize returns an AuthorizedApi of the base_url of the Api
   and the given token and leaves the Api as it was, so that the requests of
   the AuthorizedApi go to the base_url of the Api and not to the default
   one; AuthorizedServerApi::authorize replaces the token and keeps the
   base_url; Api::default() is of "https://api.gofile.io".  The code breaks
   the consequence: AuthorizedApi::get_server asks Api::default(), whatever
   the base_url of the handle. *)
C12_AuthorizeKeepsBaseUrl ==
    AuthorizeKeepsBaseUrl /\ AuthorizedRequestsGoToBaseUrl

----------------------------------------------------------------------------

\* The string is a type and a subtype, each a token that is not empty, with
\* the one "/" between them.
IsMimeType(cs) ==
    /\ Cardinality({i \in DOMAIN cs : cs[i] = "/"}) = 1
    /\ Len(cs) >= 3
    /\ cs[1] # "/"
    /\ cs[Len(cs)] # "/"
    /\ \A i \in DOMAIN cs : cs[i] \in MimeTokenChars \cup {"/"}

(* C13: a file record whose mimetype is a string that is no MIME type does
   not decode: the result is the error and no Content; a file that is
   decoded has the MIME type its string names, never another. *)
C13_InvalidMimeIsDecodeError ==
    (Decoded /\ TypeOf(input.obj) = Some("file") /\ Has(input.obj, "mimetype")) =>
        LET mimetype == input.obj["mimetype"].str
        IN  /\ ~IsMimeType(mimetype) => (~output.ok /\ DOMAIN output = {"ok"})
            /\ output.ok =>
                  /\ IsMimeType(mimetype)
                  /\ output.value.kind.variant = "File"
                  /\ output.value.kind.mimetype = [mime |-> Str(mimetype)]

\* A file record with every field, its mimetype a token and no more, is
\* not decoded.
C13_Witness ==
    /\ Decoded
    /\ DOMAIN input.obj = ContentKeys
    /\ TypeOf(input.obj) = Some("file")
    /\ input.obj["contents"] = GoodContents
    /\ input.obj["mimetype"] = JStr(<<"t", "p">>)
    /\ ~output.ok

----------------------------------------------------------------------------

UploadOps ==
    {"ServerApi::upload_file", "ServerApi::upload_file_to_folder",
     "ServerApi::upload_file_with_filename",
     "ServerApi::upload_file_with_filename_to_folder",
     "AuthorizedServerApi::upload_file",
     "AuthorizedServerApi::upload_file_to_folder",
     "AuthorizedServerApi::upload_file_with_filename",
     "AuthorizedServerApi::upload_file_with_filename_to_folder"}

\* The content the call was given: the file at its path, or its body.
GivenBody(c) ==
    LET last == c.args[Len(c.args)]
    IN  IF "file_name" \in DOMAIN last THEN last.file[1] ELSE last

\* The part is a stream of the content given: none of it is in the request.
IsStreamOf(part, body) ==
    /\ DOMAIN part = {"name", "file_name", "stream"}
    /\ part.stream = body

(* C14: every upload, from a path or from a file name and a body, gives the
   content to the HTTP client as the one part named "file" of a multipart
   form, a stream; the request is sent with nothing of the content read, and
   the HTTP client reads it, up to its size, while the request is on its
   way. *)
C14_StreamedFilePart ==
    (request # Absent /\ call.op \in UploadOps) =>
        /\ request.method = "POST"
        /\ IsUpload(request)
        /\ {i \in DOMAIN request.body.multipart :
               request.body.multipart[i].name = "file"} = {1}
        /\ IsStreamOf(request.body.multipart[1], GivenBody(call))
        /\ sent \in 0..BodySize(request)
        /\ response # Absent => sent = BodySize(request)

\* The upload of the file at a path is on its way; the file has two bytes, of
\* which none is read.
C14_Witness ==
    /\ pc = "sent"
    /\ call.op = "AuthorizedServerApi::upload_file_to_folder"
    /\ request.body.multipart[1].name = "file"
    /\ request.body.multipart[1].stream = [size |-> 2]
    /\ sent = 0

====
